---- MODULE Spec2Model ----
(***************************************************************************)
(* st_supabase_connection: the credential resolution of                    *)
(* SupabaseConnection._connect and the memoized facade operations of       *)
(* src/src/st_supabase_connection/__init__.py, with the demo's clear-cache *)
(* button (src/demo/app.py).                                               *)
(*                                                                         *)
(* The specifications share the variables:                                *)
(*   SpecConnect    one _connect call over every combination of the three  *)
(*                  credential sources;                                    *)
(*   SpecCache      sequences of memoized facade calls, clock advances and *)
(*                  cache clears against the process-wide cache stores,    *)
(*                  every SDK request returning;                           *)
(*   SpecCacheFail  the same, shorter, with SDK requests that may raise.   *)
(*   SpecPath       _normalize_storage_path applied to every short path,   *)
(*                  and to its own result;                                 *)
(*   SpecPayload    _prepare_upload_payload applied to paths, bytes and    *)
(*                  file-like objects;                                     *)
(*   SpecFacade     calls of the operations that are not memoized, with    *)
(*                  the files they open and the SDK requests they send;    *)
(*   SpecMutate     mutating operations between memoized reads;            *)
(*   SpecDownload   download over paths with and without directories;      *)
(*   SpecSessions   two sessions whose memoized calls interleave;          *)
(*   SpecDemo       the demo's "Execute query" handler;                    *)
(*   SpecIdentity   memoized calls made on two connections;                *)
(*   SpecUpload     upload and the files of the working directory.         *)
(***************************************************************************)
EXTENDS Integers, Sequences, FiniteSets, TLC

VARIABLES
    \* ---- _connect ----
    kwargs,            \* **kwargs of _connect: field -> value, or Absent
    secrets,           \* self._secrets: field -> value, or Absent
    environ,           \* os.environ: field -> value, or Absent
    connect_pc,        \* "start" | "connected" | "raised"
    connect_error,     \* the fields the raised ConnectionRefusedError names
    create_client_args,\* <<>> until create_client is called, then <<[url, key]>>
    attrs,             \* attributes _connect has set on the connection
    \* ---- memoized operations ----
    resource_caches,   \* st.cache_resource store: function key -> cache
    data_caches,       \* st.cache_data store: function key -> cache
    now,               \* the cache timer
    sdk_fails,         \* whether the next SDK request raises
    sdk_calls,         \* number of SDK requests made so far
    hist,              \* log of the facade calls, clock advances and clears
    \* ---- storage path normalizer ----
    path_arg,          \* the path given to _normalize_storage_path
    normalized,        \* the outcomes of normalizing it, then its result again
    \* ---- upload payload normalizer ----
    file_arg,          \* the file given to _prepare_upload_payload
    fallback_arg,      \* the fallback name given to it
    prepared,          \* <<>> until it has run, then <<its outcome>>
    \* ---- operations that are not memoized ----
    trace,             \* what they did: files opened and closed, SDK requests
    files,             \* the working directory: file name -> contents
    \* ---- sessions and connections ----
    pending,           \* session -> the memoized call it has issued, if any
    self_id,           \* the connection the calls are made on
    \* ---- the demo's "Execute query" handler ----
    count_method,      \* the selected count method, or None
    view,              \* the selected output view
    query_raises,      \* what evaluating the constructed query raises
    shown,             \* what the handler has displayed
    demo_pc            \* "idle" | "done"

connect_vars == <<kwargs, secrets, environ, connect_pc, connect_error,
                  create_client_args, attrs>>
cache_vars == <<resource_caches, data_caches, now, sdk_fails, sdk_calls, hist>>
path_vars == <<path_arg, normalized>>
\* what neither _connect nor the memoized operations touch
payload_vars == <<file_arg, fallback_arg, prepared>>
demo_vars == <<count_method, view, query_raises, shown, demo_pc>>
rest_vars == <<pending, self_id, count_method, view, query_raises, shown, demo_pc>>
other_vars == <<path_arg, normalized, file_arg, fallback_arg, prepared, trace,
                files, pending, self_id, count_method, view, query_raises, shown,
                demo_pc>>
vars == <<kwargs, secrets, environ, connect_pc, connect_error,
          create_client_args, attrs,
          resource_caches, data_caches, now, sdk_fails, sdk_calls, hist,
          path_arg, normalized, file_arg, fallback_arg, prepared, trace,
          files, pending, self_id, count_method, view, query_raises, shown,
          demo_pc>>

(***************************************************************************)
(* Credential resolution: SupabaseConnection._connect                      *)
(***************************************************************************)

Fields == {"url", "key"}

\* A source either lacks a field or holds a value for it.  A keyword argument
\* or a secret may hold None or the empty string; an environment variable may
\* hold the empty string but never None.
Absent == "<absent>"
NoneValue == "<None>"
KwargValues == {NoneValue, "", "v1", "v2"}
SecretValues == {NoneValue, "", "v1", "v2"}
EnvironValues == {"", "v1", "v2"}

\* The attributes _connect assigns after create_client returns.
ConnectAttrs == {"client", "table", "auth", "delete_bucket", "empty_bucket"}

\* `"url" in kwargs`, `"SUPABASE_URL" in self._secrets`, `"SUPABASE_URL" in os.environ`
Has(source, field) == source[field] # Absent

\* Python truthiness of a credential value
Truthy(v) == v # NoneValue /\ v # ""

\* The if / elif / elif / else chain of _connect for one field: the value it
\* binds, or Absent when the else branch raises.
ResolveSwapped(field) ==
    IF Has(kwargs, field) THEN kwargs[field]
    ELSE IF Has(environ, field) THEN environ[field]
    ELSE IF Has(secrets, field) THEN secrets[field]
    ELSE Absent

Resolve(field) ==
    IF Has(kwargs, field) THEN kwargs[field]
    ELSE IF Has(secrets, field) THEN secrets[field]
    ELSE IF Has(environ, field) THEN environ[field]
    ELSE Absent

\* The field named by the ConnectionRefusedError _connect raises, if any: the
\* url chain runs first and raises before the key chain is reached.
RaisedForUrlOnly ==
    IF Resolve("url") = Absent THEN {"url"} ELSE {}

RaisedForKeyFirst ==
    IF Resolve("key") = Absent THEN {"key"}
    ELSE IF Resolve("url") = Absent THEN {"url"}
    ELSE {}

RaisedFor ==
    IF Resolve("url") = Absent THEN {"url"}
    ELSE IF Resolve("key") = Absent THEN {"key"}
    ELSE {}

\* _connect raising ConnectionRefusedError: nothing is assigned.
ConnectRaise ==
    /\ connect_pc = "start"
    /\ RaisedFor # {}
    /\ connect_pc' = "raised"
    /\ connect_error' = RaisedFor
    /\ UNCHANGED <<kwargs, secrets, environ, create_client_args, attrs>>
    /\ UNCHANGED cache_vars
    /\ UNCHANGED other_vars

\* _connect resolving both values: create_client(url, key) is called with them
\* and, when it returns, the five attributes are set.  create_client belongs to
\* the SDK and may itself raise, in which case no attribute is set.
ConnectCreate ==
    /\ connect_pc = "start"
    /\ RaisedFor = {}
    /\ create_client_args' = <<[url |-> Resolve("url"), key |-> Resolve("key")]>>
    /\ \E sdk_ok \in BOOLEAN :
          IF sdk_ok
          THEN /\ connect_pc' = "connected"
               /\ attrs' = ConnectAttrs
          ELSE /\ connect_pc' = "sdk_raised"
               /\ attrs' = attrs
    /\ UNCHANGED <<kwargs, secrets, environ, connect_error>>
    /\ UNCHANGED cache_vars
    /\ UNCHANGED other_vars

InitConnectVars ==
    /\ kwargs \in [Fields -> KwargValues \cup {Absent}]
    /\ secrets \in [Fields -> SecretValues \cup {Absent}]
    /\ environ \in [Fields -> EnvironValues \cup {Absent}]
    /\ connect_pc = "start"
    /\ connect_error = {}
    /\ create_client_args = <<>>
    /\ attrs = {}

InitCacheVars ==
    /\ resource_caches = <<>>
    /\ data_caches = <<>>
    /\ now = 0
    /\ sdk_fails = FALSE
    /\ sdk_calls = 0
    /\ hist = <<>>

\* No path has been normalized.
InitPathVars ==
    /\ path_arg = <<>>
    /\ normalized = <<>>

\* No payload has been prepared.
InitPayloadVars ==
    /\ file_arg = Absent
    /\ fallback_arg = Absent
    /\ prepared = <<>>

\* No exception.
NoError == ""

\* An empty working directory, no session has issued a call, the calls are
\* made on connection "A", and the demo's button has not been pressed.
InitRestVars ==
    /\ files = <<>>
    /\ pending = <<>>
    /\ self_id = "A"
    /\ count_method = NoneValue
    /\ view = "Dataframe"
    /\ query_raises = NoError
    /\ shown = <<>>
    /\ demo_pc = "idle"

InitOtherVars == InitPathVars /\ InitPayloadVars /\ trace = <<>> /\ InitRestVars

InitConnect == InitConnectVars /\ InitCacheVars /\ InitOtherVars

NextConnect == ConnectRaise \/ ConnectCreate

SpecConnect == InitConnect /\ [][NextConnect]_vars

(***************************************************************************)
(* Memoized facade operations                                              *)
(*                                                                         *)
(* Every memoized method defines its inner function anew on each call and  *)
(* decorates it with st.cache_resource(ttl=ttl) or st.cache_data(ttl=ttl). *)
(* The decorator's store is process-wide.  It keeps one cache per function *)
(* key (module, qualified name and source text of the decorated function,  *)
(* hence the same key on every call of one method) and, inside it, one     *)
(* entry per value key (the hash of the arguments whose names do not start *)
(* with an underscore, so `_self` takes no part).  A cache remembers the   *)
(* ttl it was created with: asking the store for a function key with a     *)
(* different ttl replaces that function's cache by an empty one.           *)
(***************************************************************************)

MaxEvents == 3     \* facade calls, clock advances and clears in one run
MaxFailEvents == 2 \* the same, in runs where SDK requests may raise
MaxTick == 3       \* largest single clock advance
MaxTtl == 2        \* the positive ttl the calls use

\* ttl_to_seconds: None is an infinite ttl, a number is that many seconds.
TtlNone == [forever |-> TRUE, secs |-> 0]
TtlOf(n) == [forever |-> FALSE, secs |-> n]
TtlArgs == {TtlNone, TtlOf(0), TtlOf(MaxTtl)}

Buckets == {"b1", "b2"}
Paths == {<<"d", "/", "a", ".", "p", "n", "g">>}
Credentials == {"alice"}

\* Request builders as execute_query sees them: x.request.path, .params, .json
\* (None for a body-less request), and the http method and headers its key
\* does not read.
NoJson == "<None>"
Queries ==
    { [http_method |-> "GET", path |-> "/t", params |-> "select=*",
       json |-> NoJson, headers |-> ""],
      [http_method |-> "POST", path |-> "/t", params |-> "",
       json |-> "[{'id': 1}]", headers |-> "return=representation"],
      [http_method |-> "POST", path |-> "/t", params |-> "",
       json |-> "[{'id': 1}]",
       headers |-> "return=representation,resolution=merge-duplicates"] }

\* ---- names, and the types guessed from them ----
Names == {"", "a.png", "a.xyz", "f.txt", "blob", "d/a.png"}

\* The extension mimetypes.guess_type looks up for each name.
suffix ==
    ("" :> "") @@ ("a.png" :> ".png") @@ ("a.xyz" :> ".xyz") @@
    ("f.txt" :> ".txt") @@ ("blob" :> "") @@ ("d/a.png" :> ".png")

types_map == (".png" :> "image/png") @@ (".txt" :> "text/plain")

\* mimetypes.guess_type(name)[0] for a str name: None when nothing is known.
\* The names outside the table are spelled with the characters of Chars and
\* end in no extension of types_map.
guess_type(name) ==
    IF name \in DOMAIN suffix /\ suffix[name] \in DOMAIN types_map
    THEN types_map[suffix[name]]
    ELSE NoneValue

\* mimetypes.guess_type raises TypeError for a name that is no str or path.
GuessRaises(name) == name = NoneValue

\* a or b
Or(a, b) == IF a \notin {Absent, NoneValue, ""} THEN a ELSE b

\* The str made of the characters of p.
RECURSIVE join(_)
join(p) == IF p = <<>> THEN "" ELSE Head(p) \o join(Tail(p))

\* str.split("/"): the pieces between the '/' characters.
RECURSIVE split(_)
split(p) ==
    IF \A k \in 1..Len(p) : p[k] # "/" THEN <<p>>
    ELSE LET k == CHOOSE i \in 1..Len(p) :
                      p[i] = "/" /\ \A m \in 1..(i - 1) : p[m] # "/"
         IN  <<SubSeq(p, 1, k - 1)>> \o split(SubSeq(p, k + 1, Len(p)))

\* What an SDK request returns: a fresh response on every request, tagged with
\* the request it answers.
SdkResult(op, args, serial) == [op |-> op, args |-> args, serial |-> serial]
NoResult == [op |-> "", args |-> <<>>, serial |-> 0]
SdkError == "StorageApiError"

\* The body of a decorated inner function: one SDK request, whose exception,
\* if it raises, leaves the function as it is.
InnerSwallowing(op, args) ==
    [sdk_error |-> IF sdk_fails THEN SdkError ELSE NoError,
     error |-> NoError,
     value |-> IF sdk_fails THEN NoResult ELSE SdkResult(op, args, sdk_calls + 1)]

Inner(op, args) ==
    [sdk_error |-> IF sdk_fails THEN SdkError ELSE NoError,
     error |-> IF sdk_fails THEN SdkError ELSE NoError,
     value |-> IF sdk_fails THEN NoResult ELSE SdkResult(op, args, sdk_calls + 1)]

\* A store that hands out the function's cache whatever ttl it was made with.
get_cache_any_ttl(store, fkey, ttl) ==
    IF fkey \in DOMAIN store
    THEN store[fkey]
    ELSE [ttl_seconds |-> ttl, mem |-> <<>>]

\* The store's get_cache(function key, ttl): the function's cache if it exists
\* and was created with this ttl, else a new empty cache that takes its place.
get_cache(store, fkey, ttl) ==
    IF fkey \in DOMAIN store /\ store[fkey].ttl_seconds = ttl
    THEN store[fkey]
    ELSE [ttl_seconds |-> ttl, mem |-> <<>>]

\* The cache's read_result(value key): an entry is readable while the timer is
\* before its expiry (stored time + ttl).
Readable(cache, vkey) ==
    /\ vkey \in DOMAIN cache.mem
    /\ \/ cache.ttl_seconds.forever
       \/ now < cache.mem[vkey].at + cache.ttl_seconds.secs

Event(kind, op, args, ttl, invoked, sdk_error, error, result) ==
    [kind |-> kind, op |-> op, args |-> args, ttl |-> ttl, at |-> now,
     invoked |-> invoked, sdk_error |-> sdk_error, error |-> error,
     result |-> result]

\* The facade call being made, as the log records it.
Call(op, args, ttl) == [op |-> op, args |-> args, ttl |-> ttl]

\* A call of a function decorated with ttl: look the value key up in the
\* function's cache; on a hit return the stored value; on a miss run the
\* function, and store and return its value unless it raised.
CachedFunc(ctype, fkey, vkey, ttl, call, inner) ==
    LET store == IF ctype = "resource" THEN resource_caches ELSE data_caches
        cache == get_cache(store, fkey, ttl)
        hit == Readable(cache, vkey)
        failed == ~hit /\ inner.error # NoError
        value == IF hit THEN cache.mem[vkey].value ELSE inner.value
        written == IF hit \/ failed
                   THEN cache
                   ELSE [cache EXCEPT
                           !.mem = (vkey :> [value |-> value, at |-> now]) @@ cache.mem]
        store2 == (fkey :> written) @@ store
    IN  /\ Len(hist) < MaxEvents
        /\ IF ctype = "resource"
           THEN resource_caches' = store2 /\ data_caches' = data_caches
           ELSE data_caches' = store2 /\ resource_caches' = resource_caches
        /\ sdk_calls' = IF hit THEN sdk_calls ELSE sdk_calls + 1
        /\ hist' = Append(hist,
                     Event("call", call.op, call.args, call.ttl, ~hit,
                           IF hit THEN NoError ELSE inner.sdk_error,
                           IF hit THEN NoError ELSE inner.error,
                           value))
        /\ UNCHANGED <<now, sdk_fails>>
        /\ UNCHANGED connect_vars
        /\ UNCHANGED other_vars
    /\ UNCHANGED other_vars

\* ---- the inner functions ----
_sign_in_with_password(credentials) == Inner("cached_sign_in_with_password", <<credentials>>)

_get_bucket_swallowing(bucket_id) == InnerSwallowing("get_bucket", <<bucket_id>>)

_get_bucket(bucket_id) == Inner("get_bucket", <<bucket_id>>)

_list_buckets == Inner("list_buckets", <<>>)

\* Keeps the first piece of the path as the file name.
download_first_piece(bucket_id, source_path) ==
    LET file_name == split(source_path)[1]
        response == Inner("download", <<bucket_id, source_path>>)
        mime == Or(guess_type(join(file_name)), "application/octet-stream")
    IN  IF response.error # NoError THEN response
        ELSE [response EXCEPT !.value =
                  [file_name |-> file_name, mime |-> mime, data |-> response.value]]

\* The triple (file_name, mime, data); the SDK's exception if it raises.
_download(bucket_id, source_path) ==
    LET file_name == split(source_path)[Len(split(source_path))]
        response == Inner("download", <<bucket_id, source_path>>)
        mime == Or(guess_type(join(file_name)), "application/octet-stream")
    IN  IF response.error # NoError THEN response
        ELSE [response EXCEPT !.value =
                  [file_name |-> file_name, mime |-> mime, data |-> response.value]]

_list_objects(bucket_id, path, limit, offset, sortby, order) ==
    Inner("list_objects", <<bucket_id, path, limit, offset, sortby, order>>)

_get_public_url(bucket_id, filepath) == Inner("get_public_url", <<bucket_id, filepath>>)

_execute(query) == Inner("execute_query", query)

\* execute_query's key of a request builder:
\* hash(str(path) + str(params) + str(json or {}))
_hash_func(x) ==
    x.path \o x.params \o (IF x.json = NoJson THEN "{}" ELSE x.json)

\* ---- the facade methods ----
cached_sign_in_with_password(credentials, ttl) ==
    CachedFunc("resource", "_sign_in_with_password", <<credentials>>, ttl,
               Call("cached_sign_in_with_password", <<credentials>>, ttl),
               _sign_in_with_password(credentials))

get_bucket_default_ttl(bucket_id, ttl) ==
    CachedFunc("resource", "_get_bucket", <<bucket_id>>, TtlNone,
               Call("get_bucket", <<bucket_id>>, ttl),
               _get_bucket(bucket_id))

get_bucket(bucket_id, ttl) ==
    CachedFunc("resource", "_get_bucket", <<bucket_id>>, ttl,
               Call("get_bucket", <<bucket_id>>, ttl),
               _get_bucket(bucket_id))

list_buckets(ttl) ==
    CachedFunc("resource", "_list_buckets", <<>>, ttl,
               Call("list_buckets", <<>>, ttl),
               _list_buckets)

download_default_ttl(bucket_id, source_path, ttl) ==
    CachedFunc("resource", "_download", <<bucket_id, source_path>>, TtlNone,
               Call("download", <<bucket_id, source_path>>, ttl),
               _download(bucket_id, source_path))

download(bucket_id, source_path, ttl) ==
    CachedFunc("resource", "_download", <<bucket_id, source_path>>, ttl,
               Call("download", <<bucket_id, source_path>>, ttl),
               _download(bucket_id, source_path))

list_objects(bucket_id, path, limit, offset, sortby, order, ttl) ==
    CachedFunc("data", "_list_objects",
               <<bucket_id, path, limit, offset, sortby, order>>, ttl,
               Call("list_objects",
                    <<bucket_id, path, limit, offset, sortby, order>>, ttl),
               _list_objects(bucket_id, path, limit, offset, sortby, order))

get_public_url(bucket_id, filepath, ttl) ==
    CachedFunc("data", "_get_public_url", <<bucket_id, filepath>>, ttl,
               Call("get_public_url", <<bucket_id, filepath>>, ttl),
               _get_public_url(bucket_id, filepath))

execute_query(query, ttl) ==
    CachedFunc("resource", "_execute", <<_hash_func(query)>>, ttl,
               Call("execute_query", query, ttl),
               _execute(query))

\* ---- the demo's "Clear cache" button ----
\* st.cache_data.clear() and st.cache_resource.clear(): both stores lose every
\* function's cache.
ClearCache ==
    /\ Len(hist) < MaxEvents
    /\ data_caches' = <<>>
    /\ resource_caches' = <<>>
    /\ hist' = Append(hist, Event("clear", "", <<>>, TtlNone, FALSE,
                                  NoError, NoError, NoResult))
    /\ UNCHANGED <<now, sdk_fails, sdk_calls>>
    /\ UNCHANGED connect_vars
    /\ UNCHANGED other_vars

\* ---- the environment ----
\* The cache timer advances.
Tick(d) ==
    /\ Len(hist) < MaxEvents
    /\ now' = now + d
    /\ hist' = Append(hist, Event("tick", "", <<>>, TtlNone, FALSE,
                                  NoError, NoError, NoResult))
    /\ UNCHANGED <<resource_caches, data_caches, sdk_fails, sdk_calls>>
    /\ UNCHANGED connect_vars
    /\ UNCHANGED other_vars

\* The remote service starts or stops answering: SDK requests raise while it
\* does not.
SdkFlip ==
    /\ sdk_fails' = ~sdk_fails
    /\ UNCHANGED <<resource_caches, data_caches, now, sdk_calls, hist>>
    /\ UNCHANGED connect_vars
    /\ UNCHANGED other_vars

\* The connection after a _connect that read both values from the
\* environment, as in the demo.
Connected ==
    /\ kwargs = [f \in Fields |-> Absent]
    /\ secrets = [f \in Fields |-> Absent]
    /\ environ = [f \in Fields |-> "v1"]
    /\ connect_pc = "connected"
    /\ connect_error = {}
    /\ create_client_args = <<[url |-> "v1", key |-> "v1"]>>
    /\ attrs = ConnectAttrs

InitCache ==
    /\ Connected
    /\ InitCacheVars
    /\ InitOtherVars

NextCache ==
    \/ \E c \in Credentials, ttl \in TtlArgs : cached_sign_in_with_password(c, ttl)
    \/ \E b \in Buckets, ttl \in TtlArgs : get_bucket(b, ttl)
    \/ \E ttl \in TtlArgs : list_buckets(ttl)
    \/ \E p \in Paths, ttl \in TtlArgs : download("b1", p, ttl)
    \/ \E p \in Paths, ttl \in TtlArgs : list_objects("b1", p, 100, 0, "name", "asc", ttl)
    \/ \E p \in Paths, ttl \in TtlArgs : get_public_url("b1", p, ttl)
    \/ \E q \in Queries, ttl \in TtlArgs : execute_query(q, ttl)
    \/ ClearCache
    \/ \E d \in {1, MaxTick} : Tick(d)

\* Runs in which every SDK request returns.
SpecCache == InitCache /\ [][NextCache]_vars

\* Runs in which SDK requests may raise.
NextCacheFail ==
    \/ Len(hist) < MaxFailEvents /\ NextCache
    \/ SdkFlip

SpecCacheFail == InitCache /\ [][NextCacheFail]_vars

(***************************************************************************)
(* Claims about _connect, checked under SpecConnect                        *)
(***************************************************************************)

\* No source supplies the field.
Missing(field) ==
    ~Has(kwargs, field) /\ ~Has(secrets, field) /\ ~Has(environ, field)

\* The value the documented priority selects: keyword argument, else secret,
\* else environment variable.
ByPriority(field, v) ==
    /\ Has(kwargs, field) => v = kwargs[field]
    /\ ~Has(kwargs, field) /\ Has(secrets, field) => v = secrets[field]
    /\ ~Has(kwargs, field) /\ ~Has(secrets, field) => v = environ[field]

\* C1: the url and the key handed to create_client are, each, the keyword
\* argument if present, else the secret-store entry if present, else the
\* environment variable.
C1_SourcePriority ==
    create_client_args # <<>> =>
        /\ ByPriority("url", create_client_args[1].url)
        /\ ByPriority("key", create_client_args[1].key)

\* create_client was called with a url taken from the secret store while the
\* environment held a different url, and a key taken from the environment.
C1_Witness ==
    /\ create_client_args # <<>>
    /\ ~Has(kwargs, "url") /\ Has(secrets, "url") /\ Has(environ, "url")
    /\ secrets["url"] # environ["url"]
    /\ ~Has(kwargs, "key") /\ ~Has(secrets, "key") /\ Has(environ, "key")

\* C2: when the url or the key is absent from all three sources, _connect
\* ends by raising the configuration error, create_client was never called
\* and none of client, table, auth, delete_bucket, empty_bucket is set.
C2_MissingRaisesNoEffect ==
    (connect_pc # "start" /\ (Missing("url") \/ Missing("key"))) =>
        /\ connect_pc = "raised"
        /\ create_client_args = <<>>
        /\ attrs = {}

\* _connect has raised although the url was supplied: only the key is missing.
C2_Witness ==
    /\ connect_pc = "raised"
    /\ ~Missing("url")
    /\ Missing("key")

\* C3 as claimed: the raised error names every value no source supplied and
\* none that was supplied.
C3_NamesEveryMissing ==
    connect_pc = "raised" => connect_error = {f \in Fields : Missing(f)}

\* C3 as amended: the raised error names exactly one value, the first missing
\* one in the order url, key; it never names a value that was supplied.
C3_NamesFirstMissing ==
    connect_pc = "raised" =>
        /\ Missing("url") => connect_error = {"url"}
        /\ ~Missing("url") => (Missing("key") /\ connect_error = {"key"})

\* _connect has raised with both the url and the key missing.
C3_Witness ==
    /\ connect_pc = "raised"
    /\ Missing("url")
    /\ Missing("key")

\* C4: the url and the key handed to create_client are present and non-empty.
C4_PairValidated ==
    create_client_args # <<>> =>
        /\ Truthy(create_client_args[1].url)
        /\ Truthy(create_client_args[1].key)

(***************************************************************************)
(* Claims about the memoized operations, over the event log                *)
(***************************************************************************)

IsCall(i) == hist[i].kind = "call"

\* The SDK request of call i returned, so call i returned its response.
Returned(i) == IsCall(i) /\ hist[i].invoked /\ hist[i].sdk_error = NoError

\* Calls i and j are calls of one operation with identical arguments.
SameArgs(i, j) ==
    /\ IsCall(i) /\ IsCall(j)
    /\ hist[i].op = hist[j].op
    /\ hist[i].args = hist[j].args

\* Some event strictly between i and j satisfies P.
Between(i, j, P(_)) == \E k \in (i + 1)..(j - 1) : P(k)

ClearedBetween(i, j) ==
    LET IsClear(k) == hist[k].kind = "clear" IN Between(i, j, IsClear)

\* The operation of call j was called between i and j.
SameOpBetween(i, j) ==
    LET Same(k) == IsCall(k) /\ hist[k].op = hist[j].op IN Between(i, j, Same)

\* The SDK response inside a result: download wraps it in its triple.
SdkData(r) == IF "data" \in DOMAIN r THEN r.data ELSE r

\* The number of SDK requests made up to and including event j.
InvocationsUpTo(j) ==
    Cardinality({i \in 1..j : IsCall(i) /\ hist[i].invoked})

\* Call j falls in the ttl window opened when call i stored its result.
InWindow(i, j) ==
    \/ hist[i].ttl.forever
    \/ hist[j].at - hist[i].at < hist[i].ttl.secs

\* Call j was served from the cache with the result call i obtained.
ServedFrom(i, j) ==
    /\ ~hist[j].invoked
    /\ hist[j].error = NoError
    /\ hist[j].result = hist[i].result

Pairs == {p \in (1..Len(hist)) \X (1..Len(hist)) : p[1] < p[2]}

\* C5 as claimed: of two calls of a memoized operation with identical
\* arguments and ttl, the second made within the ttl window of the first and
\* with no cache clear in between, only the first invokes the SDK and the
\* second returns the first's result.
C5_SecondCallServedFromCache ==
    \A p \in Pairs :
        (/\ SameArgs(p[1], p[2])
         /\ hist[p[1]].ttl = hist[p[2]].ttl
         /\ Returned(p[1])
         /\ InWindow(p[1], p[2])
         /\ ~ClearedBetween(p[1], p[2]))
        => ServedFrom(p[1], p[2])

\* C6: every call of a memoized operation with ttl=0 invokes the SDK.
C6_TtlZeroAlwaysInvokes ==
    \A j \in 1..Len(hist) :
        (IsCall(j) /\ hist[j].ttl = TtlOf(0)) => hist[j].invoked

\* Two identical ttl=0 calls of execute_query at the same instant, both of
\* which invoked the SDK and got different responses.
C6_Witness ==
    \E p \in Pairs :
        /\ SameArgs(p[1], p[2])
        /\ hist[p[1]].op = "execute_query"
        /\ hist[p[1]].ttl = TtlOf(0) /\ hist[p[2]].ttl = TtlOf(0)
        /\ hist[p[1]].at = hist[p[2]].at
        /\ Returned(p[1]) /\ Returned(p[2])
        /\ hist[p[1]].result # hist[p[2]].result

\* The invocation that produced the result of call j, a call served from the
\* cache.
ProducedBy(i, j) ==
    /\ i < j
    /\ Returned(i)
    /\ hist[i].result = hist[j].result

\* C7: a call with a positive ttl never returns a result stored ttl or more
\* ago: a call served from the cache returns the response of an invocation
\* less than ttl old, and a call for which every earlier response of its
\* operation is older than ttl invokes the SDK and, unless that request
\* raises, returns the new response.
C7_NoEntryOlderThanTtl ==
    \A j \in 1..Len(hist) :
        (IsCall(j) /\ ~hist[j].ttl.forever /\ hist[j].ttl.secs > 0) =>
            /\ ~hist[j].invoked =>
                   \E i \in 1..Len(hist) :
                       /\ ProducedBy(i, j)
                       /\ hist[j].at - hist[i].at < hist[j].ttl.secs
            /\ (\A i \in 1..(j - 1) :
                    (Returned(i) /\ hist[i].op = hist[j].op)
                        => hist[j].at - hist[i].at > hist[j].ttl.secs)
                => /\ hist[j].invoked
                   /\ hist[j].error = NoError =>
                          SdkData(hist[j].result) =
                              SdkResult(hist[j].op, hist[j].args, InvocationsUpTo(j))

\* download was called with a positive ttl, more than ttl passed, and the
\* second identical call invoked the SDK again and got a new response.
C7_Witness ==
    \E p \in Pairs :
        /\ SameArgs(p[1], p[2])
        /\ hist[p[1]].op = "download"
        /\ hist[p[1]].ttl = TtlOf(MaxTtl) /\ hist[p[2]].ttl = TtlOf(MaxTtl)
        /\ Returned(p[1]) /\ Returned(p[2])
        /\ hist[p[2]].at - hist[p[1]].at > MaxTtl
        /\ hist[p[2]].result # hist[p[1]].result

\* A clear precedes call j with no call of j's operation in between.
FirstAfterClear(j) ==
    \E k \in 1..(j - 1) : hist[k].kind = "clear" /\ ~SameOpBetween(k, j)

\* C8 as claimed: with ttl=None a result stays cached, whatever time passes,
\* until the cache is cleared: a later identical call with no clear in between
\* is served the same result; and the first call of an operation after a
\* clear invokes the SDK, whichever store backs the operation.
C8_NeverExpiresUntilClear ==
    /\ \A p \in Pairs :
           (/\ SameArgs(p[1], p[2])
            /\ hist[p[1]].ttl = TtlNone /\ hist[p[2]].ttl = TtlNone
            /\ Returned(p[1])
            /\ ~ClearedBetween(p[1], p[2]))
           => ServedFrom(p[1], p[2])
    /\ \A j \in 1..Len(hist) :
           (IsCall(j) /\ FirstAfterClear(j)) => hist[j].invoked

\* C9: failures are not cached.  An exception of the SDK request reaches the
\* caller as it was raised and only a call that invoked the SDK raises; the
\* stores hold nothing but responses of requests that returned; and the next
\* call of the operation with the same arguments invokes the SDK again.
C9_FailuresNotCached ==
    /\ \A j \in 1..Len(hist) :
           IsCall(j) =>
               /\ hist[j].error = hist[j].sdk_error
               /\ ~hist[j].invoked => hist[j].error = NoError
    /\ \A f \in DOMAIN resource_caches : \A k \in DOMAIN resource_caches[f].mem :
           \E i \in 1..Len(hist) :
               Returned(i) /\ hist[i].result = resource_caches[f].mem[k].value
    /\ \A f \in DOMAIN data_caches : \A k \in DOMAIN data_caches[f].mem :
           \E i \in 1..Len(hist) :
               Returned(i) /\ hist[i].result = data_caches[f].mem[k].value
    /\ \A p \in Pairs :
           (/\ SameArgs(p[1], p[2])
            /\ hist[p[1]].sdk_error # NoError
            /\ ~SameOpBetween(p[1], p[2]))
           => hist[p[2]].invoked

\* get_bucket raised the SDK's error with ttl=None, and the next identical
\* call invoked the SDK again and returned its response.
C9_Witness ==
    /\ Len(hist) = 2
    /\ SameArgs(1, 2)
    /\ hist[1].op = "get_bucket"
    /\ hist[1].ttl = TtlNone /\ hist[2].ttl = TtlNone
    /\ hist[1].error = SdkError
    /\ Returned(2)

\* C10: a call served from the cache is served the result of an earlier call
\* of the same operation with equal arguments.
C10_ServedOnlyBySameCall ==
    \A j \in 1..Len(hist) :
        (IsCall(j) /\ ~hist[j].invoked) =>
            \E i \in 1..(j - 1) :
                /\ SameArgs(i, j)
                /\ Returned(i)
                /\ hist[i].result = hist[j].result

\* C27: the ttl of the call governs, not the ttl the entry was stored under:
\* a get_bucket with ttl=0 that follows a get_bucket of the same bucket with
\* ttl=None invokes the SDK, and a call with a finite ttl that is served from
\* the cache is served a response younger than its own ttl, whatever the ttl
\* of the call that stored it.
C27_CallTtlGoverns ==
    /\ \A p \in Pairs :
           (/\ SameArgs(p[1], p[2])
            /\ hist[p[1]].op = "get_bucket"
            /\ hist[p[1]].ttl = TtlNone
            /\ hist[p[2]].ttl = TtlOf(0))
           => Returned(p[2])
    /\ \A j \in 1..Len(hist) :
           (IsCall(j) /\ ~hist[j].ttl.forever /\ ~hist[j].invoked) =>
               /\ hist[j].ttl.secs > 0
               /\ \A i \in 1..(j - 1) :
                      ProducedBy(i, j) =>
                          hist[j].at - hist[i].at < hist[j].ttl.secs

\* get_bucket stored a response with ttl=None, more than MaxTtl passed, and
\* the same call with ttl=MaxTtl invoked the SDK and got a new response.
C27_Witness ==
    /\ Len(hist) = 3
    /\ SameArgs(1, 3)
    /\ hist[1].op = "get_bucket"
    /\ hist[1].ttl = TtlNone /\ Returned(1)
    /\ hist[2].kind = "tick"
    /\ hist[3].ttl = TtlOf(MaxTtl) /\ Returned(3)
    /\ hist[3].at - hist[1].at > MaxTtl
    /\ hist[3].result # hist[1].result

\* C25: an execute_query call served from the cache is served the response
\* to the request its own builder describes: same http method, path, params,
\* body and headers.
C25_ServedSameRequest ==
    \A j \in 1..Len(hist) :
        (IsCall(j) /\ hist[j].op = "execute_query" /\ ~hist[j].invoked
                   /\ hist[j].error = NoError) =>
            /\ hist[j].result.args.http_method = hist[j].args.http_method
            /\ hist[j].result.args.headers = hist[j].args.headers
            /\ hist[j].result.args = hist[j].args

\* ======================================================================
\* Storage path normalizer.
\*
\* A path is a sequence of characters.  SpecPath draws a path, normalizes
\* it, and normalizes the result once more.
\* ======================================================================

MaxLen == 4
Chars == {"/", "a", "."}
PathInputs == UNION {[1..n -> Chars] : n \in 0..MaxLen}

ValueError == "ValueError"

\* Removes characters from both ends.
RECURSIVE strip(_, _)
strip(s, chars) ==
    IF s # <<>> /\ Head(s) \in chars THEN strip(Tail(s), chars)
    ELSE IF s # <<>> /\ s[Len(s)] \in chars THEN strip(SubSeq(s, 1, Len(s) - 1), chars)
    ELSE s

\* Removes one leading character at most.
lstrip_once(s, chars) ==
    IF s # <<>> /\ Head(s) \in chars THEN Tail(s) ELSE s

\* str.lstrip(chars): the string without its longest prefix made of chars.
RECURSIVE lstrip(_, _)
lstrip(s, chars) ==
    IF s # <<>> /\ Head(s) \in chars THEN lstrip(Tail(s), chars) ELSE s

Returns(v) == [ok |-> TRUE, value |-> v, error |-> NoError]
Raises(e) == [ok |-> FALSE, value |-> <<>>, error |-> e]

\* Normalizes with a single-character strip.
normalize_storage_path_once(p) ==
    LET sanitized_path == lstrip_once(p, {"/"})
    IN  IF sanitized_path = <<>> THEN Raises(ValueError) ELSE Returns(sanitized_path)

_normalize_storage_path(p) ==
    LET sanitized_path == lstrip(p, {"/"})
    IN  IF sanitized_path = <<>> THEN Raises(ValueError) ELSE Returns(sanitized_path)

\* The first application, to the drawn path.
NormalizePath ==
    /\ normalized = <<>>
    /\ normalized' = <<_normalize_storage_path(path_arg)>>
    /\ UNCHANGED path_arg
    /\ UNCHANGED <<payload_vars, trace, files, rest_vars>>
    /\ UNCHANGED connect_vars
    /\ UNCHANGED cache_vars

\* The second application, to the result of the first.
NormalizeAgain ==
    /\ Len(normalized) = 1
    /\ normalized[1].ok
    /\ normalized' = Append(normalized, _normalize_storage_path(normalized[1].value))
    /\ UNCHANGED path_arg
    /\ UNCHANGED <<payload_vars, trace, files, rest_vars>>
    /\ UNCHANGED connect_vars
    /\ UNCHANGED cache_vars

InitPath ==
    /\ Connected
    /\ InitCacheVars
    /\ path_arg \in PathInputs
    /\ normalized = <<>>
    /\ InitPayloadVars
    /\ trace = <<>>
    /\ InitRestVars

NextPath == NormalizePath \/ NormalizeAgain

SpecPath == InitPath /\ [][NextPath]_vars

\* The length of the run of '/' that path p starts with.
LeadingRun(p) ==
    CHOOSE k \in 0..Len(p) :
        /\ \A i \in 1..k : p[i] = "/"
        /\ k < Len(p) => p[k + 1] # "/"

\* C12: _normalize_storage_path raises exactly when the path is empty or
\* made of '/' only; otherwise it returns the path without its leading run
\* of '/', which is non-empty and does not begin with '/'.
C12_StripsLeadingRunOnly ==
    Len(normalized) >= 1 =>
        LET k == LeadingRun(path_arg)
            r == normalized[1]
        IN  /\ ~r.ok <=> k = Len(path_arg)
            /\ ~r.ok => r.error = ValueError
            /\ r.ok => /\ r.value = SubSeq(path_arg, k + 1, Len(path_arg))
                       /\ r.value # <<>>
                       /\ r.value[1] # "/"

\* "/a/." normalized: the leading '/' is gone, the inner one is kept.
C12_Witness ==
    /\ path_arg = <<"/", "a", "/", ".">>
    /\ Len(normalized) >= 1
    /\ normalized[1] = Returns(<<"a", "/", ".">>)

\* C13: whenever _normalize_storage_path succeeds on a path, it succeeds
\* on its own result and returns that result unchanged.
C13_Idempotent ==
    /\ (Len(normalized) >= 1 /\ normalized[1].ok) => ENABLED NormalizeAgain \/ Len(normalized) = 2
    /\ Len(normalized) = 2 => normalized[2] = normalized[1]

\* "//a/" normalized twice.
C13_Witness ==
    /\ path_arg = <<"/", "/", "a", "/">>
    /\ Len(normalized) = 2
    /\ normalized[2] = Returns(<<"a", "/">>)

\* ======================================================================
\* Upload payload normalizer.
\*
\* A file is a record: a filesystem path (str or Path), raw bytes, or an
\* object with any of the attributes name, type, content_type and any of
\* the methods seek, getvalue, read.  Contents are sequences of byte
\* values, or of code points for a stream that reads as text.
\* ======================================================================

_DEFAULT_MIME_TYPE == "application/octet-stream"

NameAttrs == {Absent, NoneValue, "", "a.png", "a.xyz"}
TypeAttrs == {Absent, NoneValue, "", "image/gif"}
ContentTypeAttrs == {Absent, "", "text/css"}
FallbackNames == {"", "f.txt", "blob"}
BinaryContents == {<<>>, <<104, 233>>}
TextContents == {<<104, 233>>}

PathFile(kind, p, exists) ==
    [kind |-> kind, path |-> p, exists |-> exists,
     name |-> Absent, type |-> Absent, content_type |-> Absent,
     seek |-> FALSE, getvalue |-> FALSE, read |-> FALSE,
     text |-> FALSE, contents |-> <<104, 233>>, pos |-> 0]

BytesFile(data) ==
    [kind |-> "bytes", path |-> Absent, exists |-> FALSE,
     name |-> Absent, type |-> Absent, content_type |-> Absent,
     seek |-> FALSE, getvalue |-> FALSE, read |-> FALSE,
     text |-> FALSE, contents |-> data, pos |-> 0]

ObjectFile(name, type, content_type, seek, getvalue, read, text, contents, pos) ==
    [kind |-> "object", path |-> Absent, exists |-> FALSE,
     name |-> name, type |-> type, content_type |-> content_type,
     seek |-> seek, getvalue |-> getvalue, read |-> read,
     text |-> text, contents |-> contents, pos |-> pos]

PathFiles ==
    {PathFile(k, p, e) : k \in {"str", "Path"}, p \in Names \ {""}, e \in BOOLEAN}

BytesFiles == {BytesFile(d) : d \in BinaryContents}

ObjectFiles ==
    UNION {{ObjectFile(n, t, c, sk, gv, rd, tx, d, ps) :
                n \in NameAttrs, t \in TypeAttrs, c \in ContentTypeAttrs,
                sk \in BOOLEAN, gv \in BOOLEAN, rd \in BOOLEAN, ps \in 0..Len(d)} :
           <<tx, d>> \in ({FALSE} \X BinaryContents) \cup ({TRUE} \X TextContents)}

FileInputs == PathFiles \cup BytesFiles \cup ObjectFiles

\* str.encode(): UTF-8 of a sequence of code points below 2048.
RECURSIVE encode(_)
encode(text) ==
    IF text = <<>> THEN <<>>
    ELSE (IF Head(text) < 128 THEN <<Head(text)>>
          ELSE <<192 + (Head(text) \div 64), 128 + (Head(text) % 64)>>)
         \o encode(Tail(text))

HandlePayload(f) == [form |-> "handle", data |-> f.contents]
BytesPayload(data) == [form |-> "bytes", data |-> data]
ObjectPayload == [form |-> "object", data |-> <<>>]
NoPayload == [form |-> "none", data |-> <<>>]

\* The triple (payload, content_type, cleanup) and what was done to the
\* file to make it; cleanup is TRUE for file_obj.close, FALSE for None.
Prepared(payload, content_type, cleanup, effects) ==
    [ok |-> TRUE, error |-> NoError, payload |-> payload,
     content_type |-> content_type, cleanup |-> cleanup, effects |-> effects]

PrepareRaises(e, effects) ==
    [ok |-> FALSE, error |-> e, payload |-> NoPayload,
     content_type |-> NoneValue, cleanup |-> FALSE, effects |-> effects]

\* The content type without the final default.
content_type_no_default(f, name_hint) ==
    Or(f.type, Or(f.content_type, guess_type(name_hint)))

\* getattr(file, "type", None) or getattr(file, "content_type", None)
\*     or mimetypes.guess_type(name_hint)[0] or _DEFAULT_MIME_TYPE
content_type_of(f, name_hint) ==
    Or(f.type, Or(f.content_type, Or(guess_type(name_hint), _DEFAULT_MIME_TYPE)))

\* The stream's position when nothing rewinds it.
position_kept(f) == f.pos

\* if hasattr(file, "seek"): file.seek(0)
position_after_seek(f) == IF f.seek THEN 0 ELSE f.pos

_prepare_upload_payload(f, fallback_name) ==
    IF f.kind \in {"str", "Path"}
    THEN IF ~f.exists THEN PrepareRaises("FileNotFoundError", <<>>)
         ELSE Prepared(HandlePayload(f), Or(guess_type(f.path), _DEFAULT_MIME_TYPE),
                       TRUE, <<"open">>)
    ELSE LET name_hint == IF f.name = Absent THEN fallback_name ELSE f.name
             declared == Or(f.type, Or(f.content_type, NoneValue))
         IN  IF declared = NoneValue /\ GuessRaises(name_hint)
             THEN PrepareRaises("TypeError", <<>>)
             ELSE LET content_type ==
                          IF declared # NoneValue THEN declared
                          ELSE content_type_of(f, name_hint)
                      rewind == IF f.seek THEN <<"seek">> ELSE <<>>
                      pos == position_after_seek(f)
                      raw == IF f.getvalue THEN f.contents
                             ELSE SubSeq(f.contents, pos + 1, Len(f.contents))
                      data == IF f.text THEN encode(raw) ELSE raw
                  IN  IF f.kind = "bytes"
                      THEN Prepared(BytesPayload(f.contents), content_type, FALSE, <<>>)
                      ELSE IF f.getvalue
                      THEN Prepared(BytesPayload(data), content_type, FALSE,
                                    rewind \o <<"getvalue">>)
                      ELSE IF f.read
                      THEN Prepared(BytesPayload(data), content_type, FALSE,
                                    rewind \o <<"read">>)
                      ELSE Prepared(ObjectPayload, content_type, FALSE, rewind)

PreparePayload ==
    /\ prepared = <<>>
    /\ prepared' = <<_prepare_upload_payload(file_arg, fallback_arg)>>
    /\ UNCHANGED <<file_arg, fallback_arg>>
    /\ UNCHANGED <<path_vars, trace, files, rest_vars>>
    /\ UNCHANGED connect_vars
    /\ UNCHANGED cache_vars

InitPayload ==
    /\ Connected
    /\ InitCacheVars
    /\ InitPathVars
    /\ file_arg \in FileInputs
    /\ fallback_arg \in FallbackNames
    /\ prepared = <<>>
    /\ trace = <<>>
    /\ InitRestVars

NextPayload == PreparePayload

SpecPayload == InitPayload /\ [][NextPayload]_vars

\* C19: for raw bytes and any fallback name, _prepare_upload_payload
\* returns those bytes unchanged, a non-empty content type, and no cleanup.
C19_BytesUnchanged ==
    (prepared # <<>> /\ file_arg.kind = "bytes") =>
        /\ prepared[1].ok
        /\ prepared[1].payload = BytesPayload(file_arg.contents)
        /\ prepared[1].content_type \notin {Absent, NoneValue, ""}
        /\ prepared[1].cleanup = FALSE
        /\ prepared[1].effects = <<>>

\* Bytes prepared under a fallback name without an extension.
C19_Witness ==
    /\ file_arg = BytesFile(<<104, 233>>)
    /\ fallback_arg = "blob"
    /\ prepared = <<Prepared(BytesPayload(<<104, 233>>), _DEFAULT_MIME_TYPE, FALSE, <<>>)>>

Guessed(name_hint) ==
    IF name_hint # NoneValue THEN guess_type(name_hint) ELSE NoneValue

\* C20: the content type is, in this order, the declared type (type, then
\* content_type) if set and non-empty, the type guessed from the name hint
\* (the name attribute if the object has one, else the fallback name), the
\* default; for a path it is guessed from the path, else the default; it
\* is never empty.
C20_ContentTypePriority ==
    (prepared # <<>> /\ ~(file_arg.kind \in {"str", "Path"} /\ ~file_arg.exists)) =>
        LET f == file_arg
            name_hint == IF f.name # Absent THEN f.name ELSE fallback_arg
            expected ==
                IF f.kind \in {"str", "Path"}
                THEN Or(guess_type(f.path), _DEFAULT_MIME_TYPE)
                ELSE Or(f.type, Or(f.content_type,
                        Or(Guessed(name_hint), _DEFAULT_MIME_TYPE)))
        IN  /\ prepared[1].ok
            /\ prepared[1].content_type = expected
            /\ prepared[1].content_type \notin {Absent, NoneValue, ""}

\* ======================================================================
\* Operations that are not memoized.
\*
\* Each is one action: its local steps, at most one SDK request, and what
\* it does afterwards.  The trace records, per call, the files the
\* connector opened, wrote and closed and the request it sent.
\* ======================================================================

MaxFacadeEvents == 2

StoragePaths == {<<>>, <<"/">>, <<"/", "a">>, <<"a", "/", "a">>}
\* Lists of paths: empty, valid, with an invalid path first or last.
PathLists ==
    {<<>>, <<<<"/", "a">>>>, <<<<"/">>>>,
     <<<<"/", "a">>, <<"a", "/", "a">>>>, <<<<"a", "/", "a">>, <<"/", "a">>>>,
     <<<<"/", "a">>, <<"/">>>>, <<<<>>, <<"/", "a">>>>}

\* sanitized_path.rsplit("/", maxsplit=1)[-1]: what follows the last '/'.
RECURSIVE rsplit_last(_)
rsplit_last(p) ==
    IF p = <<>> \/ p[Len(p)] = "/" THEN <<>>
    ELSE Append(rsplit_last(SubSeq(p, 1, Len(p) - 1)), p[Len(p)])

\* os.path.basename
basename(p) == rsplit_last(p)


\* The files given to upload_to_signed_url: a path that opens, one that
\* does not, bytes, a seekable stream read from the middle, and a stream
\* whose name is None.
SignedUploadFiles ==
    {PathFile("str", "a.png", TRUE), PathFile("str", "a.png", FALSE),
     BytesFile(<<104, 233>>),
     ObjectFile(Absent, Absent, Absent, TRUE, FALSE, TRUE, FALSE, <<104, 233>>, 1),
     ObjectFile(NoneValue, Absent, Absent, TRUE, FALSE, TRUE, FALSE, <<104, 233>>, 0)}

\* The files given to upload: for source "local" an UploadedFile whose
\* copy under file.name can or cannot be created, for "hosted" a path that
\* can or cannot be opened.
\* The (path, file) pairs given to upload_to_signed_url: every file under
\* a valid path, and a path file and a stream under every path.
SignedUploadInputs ==
    ({<<"/", "a">>} \X SignedUploadFiles) \cup
    (StoragePaths \X {PathFile("str", "a.png", TRUE),
                      ObjectFile(Absent, Absent, Absent, TRUE, FALSE, TRUE, FALSE,
                                 <<104, 233>>, 1)})

UploadFile(name, openable) == [name |-> name, type |-> "image/png", openable |-> openable]
UploadFiles == {UploadFile(<<"a">>, o) : o \in BOOLEAN}
\* "local", "hosted", and a source that is neither
Sources == {"local", "hosted", "other"}
DestinationPaths == {<<>>, <<"/", "a">>, <<"a">>}

FileEffect(kind, name) ==
    [call |-> Len(hist) + 1, kind |-> kind, name |-> name, op |-> "",
     args |-> <<>>, paths |-> <<>>]

\* An SDK request and the object paths it carries.
Request(op, args, paths) ==
    [call |-> Len(hist) + 1, kind |-> "request", name |-> "", op |-> op,
     args |-> args, paths |-> paths]

Passed(effects) == [error |-> NoError, effects |-> effects]
Stopped(e, effects) == [error |-> e, effects |-> effects]

\* The working directory after the effects: open(name, "wb") and write put
\* the written buffer under the name, in place of what was there.
Written(fs, effects) ==
    LET names == {effects[k].name : k \in {m \in 1..Len(effects) : effects[m].kind = "write"}}
    IN  [n \in (DOMAIN fs) \cup names |-> IF n \in names THEN "written buffer" ELSE fs[n]]

\* Runs the request a second time when it raised.
FacadeRetrying(call, pre, request, post) ==
    LET attempted == pre.error = NoError
        inner == Inner(call.op, request.args)
    IN  /\ Len(hist) < MaxEvents
        /\ sdk_calls' = IF ~attempted THEN sdk_calls
                        ELSE IF sdk_fails THEN sdk_calls + 2 ELSE sdk_calls + 1
        /\ trace' = trace \o pre.effects
                          \o (IF attempted THEN <<request>> \o post ELSE <<>>)
        /\ hist' = Append(hist, Event("call", call.op, call.args, call.ttl, attempted,
                            IF attempted THEN inner.sdk_error ELSE NoError,
                            IF attempted THEN inner.error ELSE pre.error,
                            IF attempted THEN inner.value ELSE NoResult))
        /\ files' = Written(files, pre.effects)
        /\ UNCHANGED <<resource_caches, data_caches, now, sdk_fails>>
        /\ UNCHANGED <<path_vars, payload_vars, rest_vars>>
        /\ UNCHANGED connect_vars

\* A call of an operation that is not memoized: the local steps pre, then,
\* unless they raised, the SDK request and the steps post; the exception of
\* either is the call's.
Facade(call, pre, request, post) ==
    LET attempted == pre.error = NoError
        inner == Inner(call.op, request.args)
    IN  /\ Len(hist) < MaxEvents
        /\ sdk_calls' = IF attempted THEN sdk_calls + 1 ELSE sdk_calls
        /\ trace' = trace \o pre.effects
                          \o (IF attempted THEN <<request>> \o post ELSE <<>>)
        /\ hist' = Append(hist, Event("call", call.op, call.args, call.ttl, attempted,
                            IF attempted THEN inner.sdk_error ELSE NoError,
                            IF attempted THEN inner.error ELSE pre.error,
                            IF attempted THEN inner.value ELSE NoResult))
        /\ files' = Written(files, pre.effects)
        /\ UNCHANGED <<resource_caches, data_caches, now, sdk_fails>>
        /\ UNCHANGED <<path_vars, payload_vars, rest_vars>>
        /\ UNCHANGED connect_vars

create_bucket(id) ==
    Facade(Call("create_bucket", <<id>>, TtlNone), Passed(<<>>),
           Request("POST /bucket", <<id>>, <<>>), <<>>)

update_bucket(bucket_id) ==
    Facade(Call("update_bucket", <<bucket_id>>, TtlNone), Passed(<<>>),
           Request("PUT /bucket/id", <<bucket_id>>, <<>>), <<>>)

delete_bucket(id) ==
    Facade(Call("delete_bucket", <<id>>, TtlNone), Passed(<<>>),
           Request("delete_bucket", <<id>>, <<>>), <<>>)

empty_bucket(id) ==
    Facade(Call("empty_bucket", <<id>>, TtlNone), Passed(<<>>),
           Request("empty_bucket", <<id>>, <<>>), <<>>)

\* Moves the object and empties both cache stores.
move_clearing(bucket_id, from_path, to_path) ==
    LET inner == Inner("move", <<bucket_id, from_path, to_path>>)
    IN  /\ Len(hist) < MaxEvents
        /\ sdk_calls' = sdk_calls + 1
        /\ trace' = Append(trace, Request("POST /object/move",
                                          <<bucket_id, from_path, to_path>>, <<>>))
        /\ hist' = Append(hist, Event("call", "move", <<bucket_id, from_path, to_path>>,
                                      TtlNone, TRUE, inner.sdk_error, inner.error,
                                      inner.value))
        /\ resource_caches' = <<>>
        /\ data_caches' = <<>>
        /\ UNCHANGED <<now, sdk_fails>>
        /\ UNCHANGED <<path_vars, payload_vars, files, rest_vars>>
        /\ UNCHANGED connect_vars

move(bucket_id, from_path, to_path) ==
    Facade(Call("move", <<bucket_id, from_path, to_path>>, TtlNone), Passed(<<>>),
           Request("POST /object/move", <<bucket_id, from_path, to_path>>, <<>>), <<>>)

remove(bucket_id, paths) ==
    Facade(Call("remove", <<bucket_id, paths>>, TtlNone), Passed(<<>>),
           Request("DELETE /object", <<bucket_id, paths>>, <<>>), <<>>)

\* Normalizes the valid paths of the list and leaves the others out.
normalize_valid_storage_paths(paths) ==
    LET valid == SelectSeq(paths, LAMBDA q : _normalize_storage_path(q).ok)
    IN  Returns([i \in 1..Len(valid) |-> _normalize_storage_path(valid[i]).value])

_normalize_storage_paths(paths) ==
    IF \E i \in 1..Len(paths) : ~_normalize_storage_path(paths[i]).ok
    THEN Raises(ValueError)
    ELSE Returns([i \in 1..Len(paths) |-> _normalize_storage_path(paths[i]).value])

create_signed_urls(bucket_id, paths, expires_in) ==
    LET normalized_paths == _normalize_storage_paths(paths)
    IN  Facade(Call("create_signed_urls", <<bucket_id, paths, expires_in>>, TtlNone),
               IF normalized_paths.ok THEN Passed(<<>>)
               ELSE Stopped(normalized_paths.error, <<>>),
               Request("create_signed_urls",
                       <<bucket_id, normalized_paths.value, expires_in>>,
                       normalized_paths.value),
               <<>>)

\* Signs the path as given.
create_signed_upload_url_unchecked(bucket_id, path) ==
    Facade(Call("create_signed_upload_url", <<bucket_id, path>>, TtlNone),
           Passed(<<>>),
           Request("create_signed_upload_url", <<bucket_id, path>>, <<path>>),
           <<>>)

create_signed_upload_url(bucket_id, path) ==
    LET sanitized_path == _normalize_storage_path(path)
    IN  Facade(Call("create_signed_upload_url", <<bucket_id, path>>, TtlNone),
               IF sanitized_path.ok THEN Passed(<<>>)
               ELSE Stopped(sanitized_path.error, <<>>),
               Request("create_signed_upload_url",
                       <<bucket_id, sanitized_path.value>>,
                       <<sanitized_path.value>>),
               <<>>)

\* The name a file's effects are recorded under.
Label(f) == IF f.kind \in {"str", "Path"} THEN f.path ELSE "<stream>"

\* What _prepare_upload_payload did to the file, as trace entries.
PrepareEffects(p, f) == [i \in 1..Len(p.effects) |-> FileEffect(p.effects[i], Label(f))]

\* Calls cleanup only when the upload returned.
cleanup_on_return(cleanup, f, raised) ==
    IF cleanup /\ ~raised THEN <<FileEffect("close", Label(f))>> ELSE <<>>

\* finally: if cleanup: cleanup()
finally_cleanup(cleanup, f, raised) ==
    IF cleanup THEN <<FileEffect("close", Label(f))>> ELSE <<>>

\* Prepares the payload first and validates the path afterwards.
upload_to_signed_url_prepare_first(bucket_id, path, token, file) ==
    LET sanitized_path == _normalize_storage_path(path)
        filename == rsplit_last(path)
        p == _prepare_upload_payload(file, join(filename))
    IN  Facade(Call("upload_to_signed_url", <<bucket_id, path, token, file>>, TtlNone),
               IF ~p.ok THEN Stopped(p.error, PrepareEffects(p, file))
               ELSE IF ~sanitized_path.ok
               THEN Stopped(sanitized_path.error, PrepareEffects(p, file))
               ELSE Passed(PrepareEffects(p, file)),
               Request("upload_to_signed_url",
                       <<bucket_id, sanitized_path.value, token, p.payload, p.content_type>>,
                       <<sanitized_path.value>>),
               finally_cleanup(p.cleanup, file, sdk_fails))

upload_to_signed_url(bucket_id, path, token, file) ==
    LET sanitized_path == _normalize_storage_path(path)
        filename == rsplit_last(sanitized_path.value)
        p == _prepare_upload_payload(file, join(filename))
    IN  Facade(Call("upload_to_signed_url", <<bucket_id, path, token, file>>, TtlNone),
               IF ~sanitized_path.ok THEN Stopped(sanitized_path.error, <<>>)
               ELSE IF ~p.ok THEN Stopped(p.error, PrepareEffects(p, file))
               ELSE Passed(PrepareEffects(p, file)),
               Request("upload_to_signed_url",
                       <<bucket_id, sanitized_path.value, token, p.payload, p.content_type>>,
                       <<sanitized_path.value>>),
               finally_cleanup(p.cleanup, file, sdk_fails))

\* Closes the file only when the block was left without an exception.
exit_on_return(name, raised) ==
    IF raised THEN <<>> ELSE <<FileEffect("close", name)>>

\* Leaving a "with open(...) as f" block closes f, exception or not.
with_exit(name, raised) == <<FileEffect("close", name)>>

upload(bucket_id, source, file, destination_path, overwrite) ==
    LET name == join(file.name)
        local_path == IF destination_path # <<>> THEN destination_path
                      ELSE <<"/">> \o file.name
        hosted_path == IF destination_path # <<>> THEN destination_path
                       ELSE <<"/">> \o basename(file.name)
        call == Call("upload", <<bucket_id, source, file, destination_path, overwrite>>,
                     TtlNone)
    IN  IF source = "local"
        THEN Facade(call,
                    IF ~file.openable THEN Stopped("OSError", <<>>)
                    ELSE Passed(<<FileEffect("open", name), FileEffect("write", name)>>
                                \o with_exit(name, FALSE)
                                \o <<FileEffect("open", name)>>),
                    Request("upload", <<bucket_id, local_path, file.type, overwrite>>,
                            <<local_path>>),
                    with_exit(name, sdk_fails))
        ELSE IF source = "hosted"
        THEN Facade(call,
                    IF ~file.openable THEN Stopped("FileNotFoundError", <<>>)
                    ELSE Passed(<<FileEffect("open", name)>>),
                    Request("upload",
                            <<bucket_id, hosted_path, guess_type(name), overwrite>>,
                            <<hosted_path>>),
                    with_exit(name, sdk_fails))
        ELSE Facade(call, Stopped("UnboundLocalError", <<>>),
                    Request("upload", <<>>, <<>>), <<>>)

\* Every operation that is not memoized, over all its inputs.
NextFacadeOps ==
    \/ create_bucket("b1")
    \/ update_bucket("b1")
    \/ delete_bucket("b1")
    \/ empty_bucket("b1")
    \/ \E from_path \in Paths, to_path \in Paths : move("b1", from_path, to_path)
    \/ \E paths \in {<<q>> : q \in Paths} : remove("b1", paths)
    \/ \E paths \in PathLists : create_signed_urls("b1", paths, 60)
    \/ \E q \in StoragePaths : create_signed_upload_url("b1", q)
    \/ \E input \in SignedUploadInputs :
           upload_to_signed_url("b1", input[1], "token", input[2])
    \/ \E source \in Sources \ {"other"}, file \in UploadFiles, d \in DestinationPaths :
           upload("b1", source, file, d, "false")
    \/ upload("b1", "other", UploadFile(<<"a">>, TRUE), <<>>, "false")

\* A few memoized calls beside them.
NextFacadeCached ==
    \/ get_bucket("b1", TtlNone)
    \/ list_buckets(TtlNone)
    \/ \E q \in Paths : download("b1", q, TtlNone)

NextFacade ==
    \/ Len(hist) < MaxFacadeEvents /\ NextFacadeOps
    \/ Len(hist) < MaxFacadeEvents /\ NextFacadeCached
    \/ SdkFlip

SpecFacade == InitCache /\ [][NextFacade]_vars

\* What call i did, in order.
CallTrace(i) == SelectSeq(trace, LAMBDA e : e.call = i)

Kinds(t) == [k \in 1..Len(t) |-> t[k].kind]

\* Call i is an upload_to_signed_url whose path is valid and whose file is
\* a filesystem path that opens: _prepare_upload_payload returns a cleanup.
ReturnsCleanup(i) ==
    /\ IsCall(i)
    /\ hist[i].op = "upload_to_signed_url"
    /\ _normalize_storage_path(hist[i].args[2]).ok
    /\ hist[i].args[4].kind \in {"str", "Path"}
    /\ hist[i].args[4].exists

\* C14: when upload_to_signed_url got a cleanup from _prepare_upload_payload,
\* the call opens the file, sends the upload, and then closes the file once,
\* whether the upload returned or raised; no close comes before the upload.
C14_CleanupOnceAfterUpload ==
    \A i \in 1..Len(hist) :
        ReturnsCleanup(i) =>
            /\ hist[i].invoked
            /\ Kinds(CallTrace(i)) = <<"open", "request", "close">>

\* An upload of a path file whose SDK request raised, closed afterwards.
C14_Witness ==
    \E i \in 1..Len(hist) :
        /\ ReturnsCleanup(i)
        /\ hist[i].error = SdkError
        /\ Kinds(CallTrace(i)) = <<"open", "request", "close">>

\* How many of the first m trace entries are of this kind on this name.
CountOf(m, kind, name) ==
    Cardinality({k \in 1..m : trace[k].kind = kind /\ trace[k].name = name})

\* C15: after every upload operation, returned or raised, each file the
\* connector opened has been closed: closes never outrun opens, and no
\* open is left without its close.
C15_NoHandleLeftOpen ==
    \A name \in {trace[k].name : k \in 1..Len(trace)} :
        /\ \A m \in 0..Len(trace) :
               CountOf(m, "close", name) <= CountOf(m, "open", name)
        /\ CountOf(Len(trace), "close", name) = CountOf(Len(trace), "open", name)

\* An upload with source "local" whose SDK request raised: the copy and the
\* handle read for the upload were both closed.
C15_Witness ==
    \E i \in 1..Len(hist) :
        /\ IsCall(i)
        /\ hist[i].op = "upload"
        /\ hist[i].error = SdkError
        /\ Kinds(CallTrace(i)) = <<"open", "write", "close", "open", "request", "close">>

UploadStyle ==
    {"upload", "upload_to_signed_url", "create_signed_upload_url", "create_signed_urls"}

\* C16: every object path that upload, upload_to_signed_url,
\* create_signed_upload_url or create_signed_urls sends to the SDK is
\* non-empty and does not begin with '/'.
C16_ForwardedPathsNormalized ==
    \A k \in 1..Len(trace) :
        (trace[k].kind = "request" /\ trace[k].op \in UploadStyle) =>
            \A m \in 1..Len(trace[k].paths) :
                /\ trace[k].paths[m] # <<>>
                /\ trace[k].paths[m][1] # "/"

Validating == {"create_signed_upload_url", "upload_to_signed_url", "create_signed_urls"}

\* Empty, or '/' characters only.
InvalidPath(q) == \A k \in 1..Len(q) : q[k] = "/"

\* Call i is a call of a validating operation with an invalid path.
GivenInvalid(i) ==
    /\ IsCall(i)
    /\ hist[i].op \in Validating
    /\ IF hist[i].op = "create_signed_urls"
       THEN \E m \in 1..Len(hist[i].args[2]) : InvalidPath(hist[i].args[2][m])
       ELSE InvalidPath(hist[i].args[2])

\* C17: create_signed_upload_url, upload_to_signed_url and
\* create_signed_urls, given an empty or '/'-only path, raise the validation
\* error having sent no SDK request and touched no file, every time they
\* are called with it.
C17_ValidationBeforeRemote ==
    /\ sdk_calls = Cardinality({i \in 1..Len(hist) : IsCall(i) /\ hist[i].invoked})
    /\ \A i \in 1..Len(hist) :
           GivenInvalid(i) =>
               /\ hist[i].error = ValueError
               /\ ~hist[i].invoked
               /\ CallTrace(i) = <<>>

\* The same invalid path given twice to one operation: two validation
\* errors, no SDK request.
C17_Witness ==
    /\ sdk_calls = 0
    /\ \E i, j \in 1..Len(hist) :
           /\ i < j
           /\ GivenInvalid(i) /\ GivenInvalid(j)
           /\ SameArgs(i, j)
           /\ hist[i].error = ValueError /\ hist[j].error = ValueError

\* What _prepare_upload_payload does to a file.
PrepareKinds == {"open", "seek", "getvalue", "read"}

\* Call i is an upload_to_signed_url.
SignedUpload(i) == IsCall(i) /\ hist[i].op = "upload_to_signed_url"

\* C28: upload_to_signed_url validates the path, then prepares the payload,
\* then uploads: with an empty or '/'-only path it opens, rewinds and reads
\* nothing; when the source file cannot be opened it sends no upload; and
\* whatever it does to the file to prepare the payload comes before the
\* upload request.
C28_ValidatePrepareUpload ==
    \A i \in 1..Len(hist) :
        SignedUpload(i) =>
            LET t == CallTrace(i)
                file == hist[i].args[4]
            IN  /\ InvalidPath(hist[i].args[2]) =>
                       /\ hist[i].error = ValueError
                       /\ \A k \in 1..Len(t) : t[k].kind \notin PrepareKinds
                /\ (~InvalidPath(hist[i].args[2])
                        /\ file.kind \in {"str", "Path"} /\ ~file.exists) =>
                       /\ hist[i].error = "FileNotFoundError"
                       /\ ~hist[i].invoked
                       /\ \A k \in 1..Len(t) : t[k].kind # "request"
                /\ \A k, m \in 1..Len(t) :
                       (t[k].kind \in PrepareKinds /\ t[m].kind = "request") => k < m

\* One upload with an invalid path and a file that would open, and one
\* with a valid path and a file that does not open; no request was sent.
C28_Witness ==
    \E i, j \in 1..Len(hist) :
        /\ SignedUpload(i) /\ SignedUpload(j)
        /\ InvalidPath(hist[i].args[2])
        /\ hist[i].args[4].kind = "str" /\ hist[i].args[4].exists
        /\ hist[i].error = ValueError
        /\ ~InvalidPath(hist[j].args[2])
        /\ hist[j].args[4].kind = "str" /\ ~hist[j].args[4].exists
        /\ hist[j].error = "FileNotFoundError"
        /\ sdk_calls = 0

\* Path r is path q without its leading '/' characters, and is not empty.
NormalizedFrom(r, q) ==
    /\ r # <<>>
    /\ r[1] # "/"
    /\ \E n \in 0..Len(q) :
           /\ \A k \in 1..n : q[k] = "/"
           /\ r = SubSeq(q, n + 1, Len(q))

\* C29: create_signed_urls given a list with an empty or '/'-only path
\* raises the validation error and asks the SDK to sign nothing; given
\* valid paths only, it sends one request with the normalized paths, as
\* many as given and in the order given.
C29_AllPathsValidatedFirst ==
    \A i \in 1..Len(hist) :
        (IsCall(i) /\ hist[i].op = "create_signed_urls") =>
            LET paths == hist[i].args[2]
                t == CallTrace(i)
            IN  IF \E m \in 1..Len(paths) : InvalidPath(paths[m])
                THEN /\ hist[i].error = ValueError
                     /\ ~hist[i].invoked
                     /\ t = <<>>
                ELSE /\ hist[i].invoked
                     /\ Len(t) = 1
                     /\ t[1].kind = "request"
                     /\ Len(t[1].paths) = Len(paths)
                     /\ \A m \in 1..Len(paths) : NormalizedFrom(t[1].paths[m], paths[m])

\* A list whose last path is invalid was refused, and a list of two valid
\* paths was sent normalized in the order given.
C29_Witness ==
    \E i, j \in 1..Len(hist) :
        /\ hist[i].op = "create_signed_urls" /\ hist[j].op = "create_signed_urls"
        /\ hist[i].args[2] = <<<<"/", "a">>, <<"/">>>>
        /\ hist[i].error = ValueError
        /\ hist[j].args[2] = <<<<"a", "/", "a">>, <<"/", "a">>>>
        /\ Len(CallTrace(j)) = 1
        /\ CallTrace(j)[1].paths = <<<<"a", "/", "a">>, <<"a">>>>

\* C18: a facade call sends at most one SDK request; when that request
\* raises, no other is sent and the call raises the same error.
C18_NoRetry ==
    [][/\ sdk_calls' <= sdk_calls + 1
       /\ Len(hist') > Len(hist) =>
              LET e == hist'[Len(hist')]
              IN  /\ e.invoked <=> sdk_calls' = sdk_calls + 1
                  /\ e.sdk_error # NoError =>
                         /\ e.error = e.sdk_error
                         /\ sdk_calls' = sdk_calls + 1]_vars

\* A move whose only SDK request raised.
C18_Witness ==
    /\ sdk_calls = 1
    /\ Len(hist) = 1
    /\ hist[1].op = "move"
    /\ hist[1].sdk_error = SdkError
    /\ hist[1].error = SdkError

\* ======================================================================
\* Mutating operations between memoized reads.
\* ======================================================================

Mutators ==
    {"create_bucket", "update_bucket", "delete_bucket", "empty_bucket", "upload",
     "move", "remove", "create_signed_urls", "create_signed_upload_url",
     "upload_to_signed_url"}

Reads == {"get_bucket", "list_buckets", "list_objects", "download"}

\* Each mutating operation, with inputs that reach the SDK and inputs that
\* raise before it.
NextMutations ==
    \/ create_bucket("b1")
    \/ update_bucket("b1")
    \/ delete_bucket("b1")
    \/ empty_bucket("b1")
    \/ \E q \in Paths : move("b1", q, q)
    \/ \E q \in Paths : remove("b1", <<q>>)
    \/ \E paths \in {<<<<"/", "a">>>>, <<<<"/">>>>} : create_signed_urls("b1", paths, 60)
    \/ \E q \in {<<"/", "a">>, <<"/">>} : create_signed_upload_url("b1", q)
    \/ \E file \in {PathFile("str", "a.png", TRUE), PathFile("str", "a.png", FALSE)} :
           upload_to_signed_url("b1", <<"/", "a">>, "token", file)
    \/ \E file \in UploadFiles : upload("b1", "hosted", file, <<>>, "false")

NextReads ==
    \/ \E ttl \in {TtlNone, TtlOf(0)} : get_bucket("b1", ttl)
    \/ list_buckets(TtlNone)
    \/ \E q \in Paths : download("b1", q, TtlNone)
    \/ \E q \in Paths : list_objects("b1", q, 100, 0, "name", "asc", TtlNone)

\* Runs in which every SDK request returns.
NextMutate == NextMutations \/ NextReads \/ ClearCache

SpecMutate == InitCache /\ [][NextMutate]_vars

IsMutation(k) == IsCall(k) /\ hist[k].op \in Mutators

\* The errors of the local steps that come before the SDK request.
LocalErrors ==
    {ValueError, "FileNotFoundError", "OSError", "TypeError", "UnboundLocalError"}

\* Calls i < j are the same read with ttl=None, i returned, and everything
\* between them is a mutating call.
ReadMutateRead(i, j) ==
    /\ SameArgs(i, j)
    /\ hist[i].op \in Reads
    /\ hist[i].ttl = TtlNone /\ hist[j].ttl = TtlNone
    /\ Returned(i)
    /\ \E k \in (i + 1)..(j - 1) : IsMutation(k)
    /\ \A k \in (i + 1)..(j - 1) : IsMutation(k)

\* The step is a call of a mutating operation.
MutationStep ==
    /\ Len(hist') = Len(hist) + 1
    /\ hist'[Len(hist')].kind = "call"
    /\ hist'[Len(hist')].op \in Mutators

\* C11 as claimed: every call of a mutating operation invokes the SDK and
\* leaves both cache stores unchanged, and a read cached with ttl=None
\* before mutations is returned unchanged after them.
C11_MutationsAlwaysInvoke ==
    /\ [](\A k \in 1..Len(hist) : IsMutation(k) => hist[k].invoked)
    /\ [](\A p \in Pairs : ReadMutateRead(p[1], p[2]) => ServedFrom(p[1], p[2]))
    /\ [][MutationStep => UNCHANGED <<resource_caches, data_caches>>]_vars

\* C11: every call of a mutating operation leaves both cache stores
\* unchanged and invokes the SDK unless one of its local steps raised first
\* (path validation, opening the file), and a read cached with ttl=None
\* before mutations is returned unchanged after them.
C11_MutationsKeepCache ==
    /\ [](\A k \in 1..Len(hist) :
              IsMutation(k) => (hist[k].invoked <=> hist[k].error \notin LocalErrors))
    /\ [](\A p \in Pairs : ReadMutateRead(p[1], p[2]) => ServedFrom(p[1], p[2]))
    /\ [][MutationStep => UNCHANGED <<resource_caches, data_caches>>]_vars

\* get_bucket cached with ttl=None, the bucket deleted, get_bucket again:
\* the cached bucket is returned.
C11_Witness ==
    /\ Len(hist) = 3
    /\ hist[2].op = "delete_bucket"
    /\ hist[2].invoked
    /\ hist[1].op = "get_bucket"
    /\ ReadMutateRead(1, 3)
    /\ ServedFrom(1, 3)

\* ======================================================================
\* download over paths of every shape.
\* ======================================================================

Dirs == {<<>>, <<"/">>, <<"d", "/">>, <<"d", "/", "e", "/">>}
FileNames ==
    {<<>>, <<"a", ".", "p", "n", "g">>, <<"f", ".", "t", "x", "t">>,
     <<"b", "l", "o", "b">>, <<"a", ".", "x", "y", "z">>}
DownloadPaths == {d \o f : d \in Dirs, f \in FileNames}

NextDownload ==
    \/ /\ Len(hist) < MaxFacadeEvents
       /\ \E source_path \in DownloadPaths : download("b1", source_path, TtlNone)
    \/ SdkFlip

SpecDownload == InitCache /\ [][NextDownload]_vars

\* What follows the last '/' of q; all of q when it has none.
LastSegment(q) ==
    LET k == CHOOSE i \in 0..Len(q) :
                 /\ i = 0 \/ q[i] = "/"
                 /\ \A m \in (i + 1)..Len(q) : q[m] # "/"
    IN  SubSeq(q, k + 1, Len(q))

\* C21: a download that returns gives (file_name, mime, data): file_name is
\* the last '/'-separated segment of source_path, mime the type guessed
\* from file_name or 'application/octet-stream' when none is guessed, and
\* data the body of an SDK download of (bucket_id, source_path).
C21_DownloadTriple ==
    \A i \in 1..Len(hist) :
        (IsCall(i) /\ hist[i].op = "download" /\ hist[i].error = NoError) =>
            LET r == hist[i].result
                guessed == guess_type(join(LastSegment(hist[i].args[2])))
            IN  /\ r.file_name = LastSegment(hist[i].args[2])
                /\ r.mime = IF guessed # NoneValue THEN guessed
                            ELSE "application/octet-stream"
                /\ r.data.op = "download"
                /\ r.data.args = hist[i].args
                /\ r.data.serial \in 1..sdk_calls

\* A file two directories down, and a path ending in '/'.
C21_Witness ==
    \E i, j \in 1..Len(hist) :
        /\ hist[i].args[2] = <<"d", "/", "e", "/", "a", ".", "p", "n", "g">>
        /\ hist[i].error = NoError
        /\ hist[i].result.file_name = <<"a", ".", "p", "n", "g">>
        /\ hist[i].result.mime = "image/png"
        /\ hist[j].args[2] = <<"d", "/">>
        /\ hist[j].error = NoError
        /\ hist[j].result.file_name = <<>>
        /\ hist[j].result.mime = "application/octet-stream"

\* ======================================================================
\* Concurrent sessions.
\*
\* Sessions run in threads of one process and share the cache stores.  A
\* memoized call is two steps: the lookup, which returns on a hit, and, on
\* a miss, the computation, which looks again, then invokes the function
\* and stores its value.  The steps of the sessions, and the clear,
\* interleave freely.
\* ======================================================================

Sessions == {"s1", "s2"}

\* A memoized call a session makes.
GetBucketCall(bucket_id, ttl) ==
    [fkey |-> "_get_bucket", vkey |-> <<bucket_id>>, op |-> "get_bucket",
     args |-> <<bucket_id>>, ttl |-> ttl]

ExecuteQueryCall(query, ttl) ==
    [fkey |-> "_execute", vkey |-> <<_hash_func(query)>>, op |-> "execute_query",
     args |-> query, ttl |-> ttl]

\* Session s makes call c: the lookup.  A hit returns the stored value; a
\* miss leaves the session about to compute.
SessionLookup(s, c) ==
    LET cache == get_cache(resource_caches, c.fkey, c.ttl)
        hit == Readable(cache, c.vkey)
    IN  /\ Len(hist) < MaxEvents
        /\ pending[s] = <<>>
        /\ resource_caches' = (c.fkey :> cache) @@ resource_caches
        /\ IF hit
           THEN /\ hist' = Append(hist, Event("call", c.op, c.args, c.ttl, FALSE,
                                        NoError, NoError, cache.mem[c.vkey].value))
                /\ UNCHANGED pending
           ELSE /\ pending' = [pending EXCEPT ![s] = <<c>>]
                /\ UNCHANGED hist
        /\ UNCHANGED <<data_caches, now, sdk_fails, sdk_calls>>
        /\ UNCHANGED <<path_vars, payload_vars, trace, files, self_id, demo_vars>>
        /\ UNCHANGED connect_vars

\* Session s computes the value it missed: it looks again, and if the value
\* is still missing invokes the function and stores what it returns.
SessionCompute(s) ==
    LET c == pending[s][1]
        cache == get_cache(resource_caches, c.fkey, c.ttl)
        hit == Readable(cache, c.vkey)
        inner == Inner(c.op, c.args)
        value == IF hit THEN cache.mem[c.vkey].value ELSE inner.value
        written == IF hit \/ inner.error # NoError THEN cache
                   ELSE [cache EXCEPT
                           !.mem = (c.vkey :> [value |-> value, at |-> now]) @@ cache.mem]
    IN  /\ pending[s] # <<>>
        /\ Len(hist) < MaxEvents
        /\ resource_caches' = (c.fkey :> written) @@ resource_caches
        /\ sdk_calls' = IF hit THEN sdk_calls ELSE sdk_calls + 1
        /\ hist' = Append(hist, Event("call", c.op, c.args, c.ttl, ~hit,
                                IF hit THEN NoError ELSE inner.sdk_error,
                                IF hit THEN NoError ELSE inner.error, value))
        /\ pending' = [pending EXCEPT ![s] = <<>>]
        /\ UNCHANGED <<data_caches, now, sdk_fails>>
        /\ UNCHANGED <<path_vars, payload_vars, trace, files, self_id, demo_vars>>
        /\ UNCHANGED connect_vars

InitSessions ==
    /\ Connected
    /\ InitCacheVars
    /\ InitPathVars
    /\ InitPayloadVars
    /\ trace = <<>>
    /\ files = <<>>
    /\ pending = [s \in Sessions |-> <<>>]
    /\ self_id = "A"
    /\ count_method = NoneValue
    /\ view = "Dataframe"
    /\ query_raises = NoError
    /\ shown = <<>>
    /\ demo_pc = "idle"

NextSessions ==
    \/ \E s \in Sessions, b \in Buckets : SessionLookup(s, GetBucketCall(b, TtlNone))
    \/ \E s \in Sessions, q \in Queries : SessionLookup(s, ExecuteQueryCall(q, TtlNone))
    \/ \E s \in Sessions : SessionCompute(s)
    \/ ClearCache

SpecSessions == InitSessions /\ [][NextSessions]_vars

\* C22: under every interleaving of the sessions' calls and the clear,
\* each call returns, and returns the complete response of an invocation
\* of the underlying call for its own operation and arguments.
C22_SessionsGetOwnResults ==
    \A j \in 1..Len(hist) :
        IsCall(j) =>
            /\ hist[j].error = NoError
            /\ hist[j].result.op = hist[j].op
            /\ hist[j].result.args = hist[j].args
            /\ hist[j].result.serial \in 1..sdk_calls

\* ======================================================================
\* The demo's database page: the "Execute query" handler.
\* ======================================================================

MaxClicks == 2

CountMethods == {NoneValue, "exact", "planned", "estimated"}

Views == {"Dataframe", "Dict (recommended for joins)"}

\* What evaluating the constructed query can do: return, or raise.
QueryOutcomes == {NoError, "ValueError", "ConnectError", "APIError"}

\* One element written to the page.
Element(kind, text) == [kind |-> kind, text |-> text]

\* The handler's except clauses.
handle_exception(e) ==
    IF e = "ValueError"
    THEN IF count_method = "planned"
         THEN <<Element("error", "Operation too small for planned count method. Please change count method.")>>
         ELSE <<>>
    ELSE IF e = "ConnectError"
         THEN <<Element("error", "Could not connect. Please check the Supabase URL provided")>>
         ELSE <<Element("error", e)>>

\* The handler's try block, when the query returns.
show_response ==
    (IF Truthy(count_method) THEN <<Element("write", "rows")>> ELSE <<>>)
    \o (IF view = "Dataframe"
        THEN <<Element("dataframe", "data")>>
        ELSE <<Element("write", "data")>>)

SelectCountMethod(c) ==
    /\ count_method' = c
    /\ UNCHANGED <<view, query_raises, shown, demo_pc>>
    /\ UNCHANGED <<connect_vars, cache_vars, path_vars, payload_vars, trace, files,
                   pending, self_id>>

SelectView(v) ==
    /\ view' = v
    /\ UNCHANGED <<count_method, query_raises, shown, demo_pc>>
    /\ UNCHANGED <<connect_vars, cache_vars, path_vars, payload_vars, trace, files,
                   pending, self_id>>

\* The button is clicked and the query evaluated, with outcome e.
ExecuteQueryClick(e) ==
    /\ Len(shown) < MaxClicks
    /\ query_raises' = e
    /\ shown' = Append(shown, IF e = NoError THEN show_response ELSE handle_exception(e))
    /\ demo_pc' = "ran"
    /\ UNCHANGED <<count_method, view>>
    /\ UNCHANGED <<connect_vars, cache_vars, path_vars, payload_vars, trace, files,
                   pending, self_id>>

NextDemo ==
    \/ \E c \in CountMethods : SelectCountMethod(c)
    \/ \E v \in Views : SelectView(v)
    \/ \E e \in QueryOutcomes : ExecuteQueryClick(e)

SpecDemo == InitCache /\ [][NextDemo]_vars

\* C23: whenever evaluating the query raised, whatever the count method,
\* the handler showed an error message.
C23_EveryErrorShown ==
    (demo_pc = "ran" /\ query_raises # NoError) =>
        \E k \in 1..Len(shown[Len(shown)]) : shown[Len(shown)][k].kind = "error"

\* ======================================================================
\* Two connections in one process.
\*
\* Each memoized method passes the connection as _self, which the cache
\* leaves out of the key; the function's own key is the same for every
\* connection.  self_id is the connection the next call is made on.
\* ======================================================================

Connections == {"A", "B"}

\* The caller turns to connection c.
UseConnection(c) ==
    /\ Len(hist) < MaxEvents
    /\ self_id # c
    /\ self_id' = c
    /\ hist' = Append(hist, Event("self", "", <<c>>, TtlNone, FALSE,
                                  NoError, NoError, NoResult))
    /\ UNCHANGED <<resource_caches, data_caches, now, sdk_fails, sdk_calls>>
    /\ UNCHANGED <<path_vars, payload_vars, trace, files, pending, demo_vars>>
    /\ UNCHANGED connect_vars

NextIdentity ==
    \/ \E c \in Credentials : cached_sign_in_with_password(c, TtlNone)
    \/ \E b \in Buckets : get_bucket(b, TtlNone)
    \/ list_buckets(TtlNone)
    \/ \E p \in Paths : download("b1", p, TtlNone)
    \/ \E p \in Paths : list_objects("b1", p, 100, 0, "name", "asc", TtlNone)
    \/ \E p \in Paths : get_public_url("b1", p, TtlNone)
    \/ \E c \in Connections : UseConnection(c)
    \/ ClearCache

SpecIdentity == InitCache /\ [][NextIdentity]_vars

\* The connection event i happened on.
ConnectionAt(i) ==
    LET turns == {k \in 1..(i - 1) : hist[k].kind = "self"}
    IN  IF turns = {} THEN "A"
        ELSE hist[CHOOSE k \in turns : \A m \in turns : m <= k].args[1]

\* C26: a result a memoized method returns on a connection comes from an
\* SDK call made on that same connection.
C26_AnsweredBySameConnection ==
    \A j \in 1..Len(hist) :
        (IsCall(j) /\ hist[j].error = NoError) =>
            \E i \in 1..j :
                /\ Returned(i)
                /\ hist[i].result = hist[j].result
                /\ ConnectionAt(i) = ConnectionAt(j)

\* ======================================================================
\* upload and the working directory.
\*
\* files maps each file name of the working directory to its contents.
\* SpecUpload starts with the directory empty, or holding a file under the
\* name of the file about to be uploaded.
\* ======================================================================

WorkingDirectories == {<<>>, ("a" :> "earlier contents")}

InitUpload ==
    /\ Connected
    /\ InitCacheVars
    /\ InitPathVars
    /\ InitPayloadVars
    /\ trace = <<>>
    /\ files \in WorkingDirectories
    /\ pending = <<>>
    /\ self_id = "A"
    /\ count_method = NoneValue
    /\ view = "Dataframe"
    /\ query_raises = NoError
    /\ shown = <<>>
    /\ demo_pc = "idle"

NextUpload ==
    \/ /\ Len(hist) < MaxFacadeEvents
       /\ \E source \in Sources \ {"other"}, file \in UploadFiles, d \in DestinationPaths :
              upload("b1", source, file, d, "false")
    \/ SdkFlip

SpecUpload == InitUpload /\ [][NextUpload]_vars

\* C30: an upload with source "local", returning or raising, leaves the
\* working directory as it was: no file added, none overwritten.
C30_LocalUploadKeepsFiles ==
    [][(/\ Len(hist') > Len(hist)
        /\ hist'[Len(hist')].op = "upload"
        /\ hist'[Len(hist')].args[2] = "local")
       => files' = files]_vars

====
